---- MODULE Spec2Model ----
(***************************************************************************)
(* Scan orchestration of need-scanner: the runs table used as a job queue  *)
(* (db.py), the daily result cache built on it (services/cache.py), the    *)
(* POST /runs handler (api.py) and the polling worker (worker.py).         *)
(*                                                                         *)
(* Time is a clock of whole seconds.  The database is PostgreSQL at READ   *)
(* COMMITTED: a statement sees the rows committed when it runs, and the    *)
(* writes of a transaction become visible at its commit.                   *)
(***************************************************************************)
EXTENDS Integers, Sequences, FiniteSets, TLC

(* ------------------------------ bounds --------------------------------- *)
MaxTime == 1
DayLength == 4
MaxBatch == 3
MaxKeyTime == 4
SimScale == 4
MaxScore == 3
MaxPool == 3
MaxWeight == 2
HistDays == 2
RetentionDays == 1
MaxHistRuns == 2

(* ----------------------------- constants ------------------------------- *)
JOB_STATUS_QUEUED == "queued"
JOB_STATUS_RUNNING == "running"
JOB_STATUS_COMPLETED == "completed"
JOB_STATUS_FAILED == "failed"
VALID_JOB_STATUSES ==
  {JOB_STATUS_QUEUED, JOB_STATUS_RUNNING, JOB_STATUS_COMPLETED, JOB_STATUS_FAILED}

PLAN_FREE == "free"
PLAN_PREMIUM == "premium"
FREE_SCANS_PER_DAY == 1
MaxErrorLen == 2000

Null == -1
NoId == <<>>

Workers == {"w1", "w2"}
Reqs == {"q1", "q2"}
Users == {"u1", "u2"}

(* The plan column of the users table: u1 is on the default free plan,     *)
(* u2 has been set to premium.                                             *)
UserPlan == [u \in Users |-> IF u = "u1" THEN PLAN_FREE ELSE PLAN_PREMIUM]

is_premium(u) == UserPlan[u] = PLAN_PREMIUM

DefaultPattern == "data/raw/posts_*.json"
NoConfigName == "none"

(* ScanRequest bodies the clients send: two valid configurations and one   *)
(* with a mode the handler rejects.  RaceRequests are the bodies of the    *)
(* clients that send one and the same configuration.                       *)
ScanRequests ==
  { [mode |-> "deep", run_mode |-> "discover", max_insights |-> Null,
     input_pattern |-> DefaultPattern],
    [mode |-> "light", run_mode |-> "discover", max_insights |-> Null,
     input_pattern |-> DefaultPattern],
    [mode |-> "fast", run_mode |-> "discover", max_insights |-> Null,
     input_pattern |-> DefaultPattern] }

RaceRequests == {b \in ScanRequests : b.mode # "light"}

ProgressPoints_unordered == <<0, 2, 10, 30, 15, 40, 80, 95, 100>>

(* Progress percentages run_scan_for_worker reports, in order; the second  *)
(* one (fetching fresh data) is reported only when the data is stale.      *)
ProgressPoints == <<0, 2, 10, 15, 30, 40, 80, 95, 100>>
FetchPoint == 2

(* len(all_insights) values the pipeline returns.                          *)
NbInsightsValues == {0, 2}

(* Lengths of the error text "{type(e).__name__}: {str(e)}".               *)
ErrorLens == {2500}

(* --------------------------- pure functions ---------------------------- *)
Min(a, b) == IF a < b THEN a ELSE b
Max(a, b) == IF a > b THEN a ELSE b

(* datetime.date() of a clock value.                                       *)
DateOf(t) == t \div DayLength

(* db.generate_run_id: strftime("%Y%m%d_%H%M%S"), the date and the second  *)
(* of the day; anything below one second is dropped.                       *)
generate_run_id(t) == <<DateOf(t), t % DayLength>>

(* json.dumps(signature, sort_keys=True): the members in key order.        *)
SignatureJson(mode, run_mode, max_insights, input_pattern, t) ==
  << <<"date", DateOf(t)>>,
     <<"input_pattern", input_pattern>>,
     <<"max_insights", max_insights>>,
     <<"mode", mode>>,
     <<"run_mode", run_mode>> >>

(* hashlib.sha256(...).hexdigest(), taken to be collision free.            *)
Sha256(s) == <<"sha256", s>>

build_cache_key_user(mode, run_mode, max_insights, input_pattern, t, user_id, config_name) ==
  Sha256(Append(SignatureJson(mode, run_mode, max_insights, input_pattern, t),
                <<"user_id", user_id>>))

build_cache_key(mode, run_mode, max_insights, input_pattern, t, user_id, config_name) ==
  Sha256(SignatureJson(mode, run_mode, max_insights, input_pattern, t))

(* ------------------------------- state --------------------------------- *)
VARIABLES
  now,        \* the clock, in seconds
  runs,       \* the runs table: run id -> row
  insights,   \* the insights table: run id -> number of rows stored
  worker,     \* each worker process: its position in ScanWorker.start
  req,        \* each POST /runs request in flight
  claims,     \* history: run id -> number of claim_next_job calls that returned it
  keyIn,      \* inputs of a pair of build_cache_key calls
  keyOut,     \* the keys computed for keyIn
  call,       \* the last direct call of a library function: its arguments and result
  history     \* the cluster history file and each process's loaded copy of it

vars == <<now, runs, insights, worker, req, claims, keyIn, keyOut, call, history>>

RunIds == DOMAIN runs

IdleWorker == [pc |-> "poll", job |-> NoId, stage |-> 0, nb |-> Null, running |-> TRUE]
NoRow == [status |-> "none"]
IdleReq == [pc |-> "idle", user |-> "u1", body |-> CHOOSE c \in ScanRequests : c.mode = "deep",
            run_id |-> NoId, cache_key |-> NoId, canonical |-> NoId,
            canonical_run |-> NoRow]

NoKeyIn == <<>>
NoCall == [op |-> "none"]
NoMem == [loaded |-> FALSE, entries |-> <<>>]
NoHistory == [file |-> <<>>, mem |-> [w \in Workers |-> NoMem], done |-> [w \in Workers |-> 0]]

Init ==
  /\ now = 0
  /\ runs = <<>>
  /\ insights = <<>>
  /\ worker = [w \in Workers |-> IdleWorker]
  /\ req = [q \in Reqs |-> IdleReq]
  /\ claims = <<>>
  /\ keyIn = NoKeyIn
  /\ keyOut = NoKeyIn
  /\ history = NoHistory
  /\ call = NoCall

(* The clock advances by one second.                                       *)
Tick ==
  /\ now < MaxTime
  /\ now' = now + 1
  /\ UNCHANGED <<runs, insights, worker, req, claims, keyIn, keyOut, call, history>>

(* ----------------------------- queries -------------------------------- *)
(* ORDER BY created_at ASC ... first row: any row of S with the smallest   *)
(* created_at.                                                             *)
Oldest(S) == {id \in S : \A j \in S : runs[id].created_at <= runs[j].created_at}

find_canonical_run_by_cache_key_queued(cache_key) ==
  Oldest({id \in RunIds :
            /\ runs[id].cache_key = cache_key
            /\ runs[id].is_cached_result = FALSE
            /\ runs[id].status \in {JOB_STATUS_QUEUED, JOB_STATUS_RUNNING, JOB_STATUS_COMPLETED}})

Newest(S) == {id \in S : \A j \in S : runs[id].created_at >= runs[j].created_at}

find_canonical_run_by_cache_key_newest(cache_key) ==
  Newest({id \in RunIds :
            /\ runs[id].cache_key = cache_key
            /\ runs[id].is_cached_result = FALSE
            /\ runs[id].status \in {JOB_STATUS_RUNNING, JOB_STATUS_COMPLETED}})

(* cache.find_canonical_run_by_cache_key: the runs the query may return;   *)
(* the empty set stands for None.                                          *)
find_canonical_run_by_cache_key(cache_key) ==
  Oldest({id \in RunIds :
            /\ runs[id].cache_key = cache_key
            /\ runs[id].is_cached_result = FALSE
            /\ runs[id].status \in {JOB_STATUS_RUNNING, JOB_STATUS_COMPLETED}})

(* db.count_queued_jobs                                                    *)
count_queued_jobs ==
  Cardinality({id \in RunIds :
                 /\ runs[id].status = JOB_STATUS_QUEUED
                 /\ runs[id].is_cached_result = FALSE})

(* db.count_running_jobs                                                   *)
count_running_jobs ==
  Cardinality({id \in RunIds : runs[id].status = JOB_STATUS_RUNNING})

(* limits.count_user_scans_today                                           *)
count_user_scans_today(u) ==
  Cardinality({id \in RunIds :
                 runs[id].user_id = u /\ DateOf(runs[id].created_at) = DateOf(now)})

(* limits.ensure_can_run_scan: TRUE when it returns, FALSE when it raises  *)
(* the 403.                                                                *)
ensure_can_run_scan(u) ==
  is_premium(u) \/ count_user_scans_today(u) < FREE_SCANS_PER_DAY

ValidBody_mode(body) == body.mode \in {"light", "deep"}

ValidBody(body) ==
  /\ body.mode \in {"light", "deep"}
  /\ body.run_mode \in {"discover", "track"}

(* db.get_job_status: the polled fields of a run, a cached run resolved    *)
(* through source_run_id when that row exists.                             *)
StatusFields(row) ==
  [status |-> row.status, progress |-> row.progress,
   completed_at |-> row.completed_at,
   error_message |-> row.error_message, nb_insights |-> row.nb_insights]

get_job_status_snapshot(id) == StatusFields(runs[id])

get_job_status(id) ==
  IF runs[id].is_cached_result /\ runs[id].source_run_id # NoId
        /\ runs[id].source_run_id \in RunIds
  THEN StatusFields(runs[runs[id].source_run_id])
  ELSE StatusFields(runs[id])

(* ------------------------- POST /runs (api.py) ------------------------- *)
(* The steps of the handler; the response each one sends is recorded by    *)
(* the specification that takes the step.                                  *)
(* ensure_can_run_scan raises: 403 SCAN_LIMIT_REACHED.                     *)
ReqLimitReached(q, u, body) ==
  /\ req[q].pc = "idle"
  /\ ~ensure_can_run_scan(u)
  /\ req' = [req EXCEPT ![q] = IdleReq]
  /\ UNCHANGED <<now, runs, insights, worker, claims, keyIn, keyOut, history>>

(* The mode or run_mode check raises: 400.                                 *)
ReqInvalid(q, u, body) ==
  /\ req[q].pc = "idle"
  /\ ensure_can_run_scan(u)
  /\ ~ValidBody(body)
  /\ req' = [req EXCEPT ![q] = IdleReq]
  /\ UNCHANGED <<now, runs, insights, worker, claims, keyIn, keyOut, history>>

(* The handler up to and including the canonical lookup: the run id and    *)
(* the cache key are computed and the lookup's row is loaded.              *)
ReqFind(q, u, body) ==
  /\ req[q].pc = "idle"
  /\ ensure_can_run_scan(u)
  /\ ValidBody(body)
  /\ LET key == build_cache_key(body.mode, body.run_mode, body.max_insights,
                                body.input_pattern, now, u, NoConfigName)
         found == find_canonical_run_by_cache_key(key)
     IN  \/ /\ found = {}
            /\ req' = [req EXCEPT ![q] =
                  [pc |-> "found", user |-> u, body |-> body,
                   run_id |-> generate_run_id(now), cache_key |-> key,
                   canonical |-> NoId, canonical_run |-> NoRow]]
         \/ \E c \in found :
              req' = [req EXCEPT ![q] =
                  [pc |-> "found", user |-> u, body |-> body,
                   run_id |-> generate_run_id(now), cache_key |-> key,
                   canonical |-> c, canonical_run |-> runs[c]]]
  /\ UNCHANGED <<now, runs, insights, worker, claims, keyIn, keyOut, history>>

create_cached_run_defaults(q) ==
  [status |-> JOB_STATUS_QUEUED,
   progress |-> 0,
   created_at |-> now,
   completed_at |-> Null,
   error_message |-> Null,
   cache_key |-> req[q].canonical_run.cache_key,
   is_cached_result |-> FALSE,
   source_run_id |-> req[q].canonical,
   user_id |-> req[q].user,
   mode |-> req[q].body.mode,
   run_mode |-> req[q].body.run_mode,
   max_insights |-> req[q].body.max_insights,
   input_pattern |-> req[q].body.input_pattern,
   nb_insights |-> Null]

(* cache.create_cached_run: the row it adds.  The status, progress and     *)
(* result copied are those of the canonical row as the lookup loaded it.   *)
create_cached_run(q) ==
  LET c == req[q].canonical_run
      completed == c.status = JOB_STATUS_COMPLETED
  IN  [status |-> c.status,
       progress |-> IF c.progress = Null THEN 0 ELSE c.progress,
       created_at |-> now,
       completed_at |-> IF completed THEN c.completed_at ELSE Null,
       error_message |-> Null,
       cache_key |-> c.cache_key,
       is_cached_result |-> TRUE,
       source_run_id |-> req[q].canonical,
       user_id |-> req[q].user,
       mode |-> req[q].body.mode,
       run_mode |-> req[q].body.run_mode,
       max_insights |-> req[q].body.max_insights,
       input_pattern |-> req[q].body.input_pattern,
       nb_insights |-> IF completed THEN c.nb_insights ELSE Null]

(* cache.create_canonical_run: the row it adds.                            *)
create_canonical_run(q) ==
  [status |-> JOB_STATUS_QUEUED,
   progress |-> 0,
   created_at |-> now,
   completed_at |-> Null,
   error_message |-> Null,
   cache_key |-> req[q].cache_key,
   is_cached_result |-> FALSE,
   source_run_id |-> NoId,
   user_id |-> req[q].user,
   mode |-> req[q].body.mode,
   run_mode |-> req[q].body.run_mode,
   max_insights |-> req[q].body.max_insights,
   input_pattern |-> req[q].body.input_pattern,
   nb_insights |-> Null]

(* The handler's cached branch: create_cached_run and the commit.          *)
ReqCreateCached(q) ==
  /\ req[q].pc = "found"
  /\ req[q].canonical # NoId
  /\ req[q].run_id \notin RunIds
  /\ runs' = runs @@ (req[q].run_id :> create_cached_run(q))
  /\ req' = [req EXCEPT ![q] = IdleReq]
  /\ UNCHANGED <<now, insights, worker, claims, keyIn, keyOut, history>>

(* The handler's other branch: create_canonical_run and the commit.        *)
ReqCreateCanonical(q) ==
  /\ req[q].pc = "found"
  /\ req[q].canonical = NoId
  /\ req[q].run_id \notin RunIds
  /\ runs' = runs @@ (req[q].run_id :> create_canonical_run(q))
  /\ req' = [req EXCEPT ![q] = IdleReq]
  /\ UNCHANGED <<now, insights, worker, claims, keyIn, keyOut, history>>

(* The insert meets a row with the same primary key: the flush raises an   *)
(* IntegrityError and the handler answers 500.  No row is written.        *)
ReqIdConflict(q) ==
  /\ req[q].pc = "found"
  /\ req[q].run_id \in RunIds
  /\ req' = [req EXCEPT ![q] = IdleReq]
  /\ UNCHANGED <<now, runs, insights, worker, claims, keyIn, keyOut, history>>

(* --------------------------- job queue (db.py) ------------------------- *)
(* A row is locked from the SELECT ... FOR UPDATE of a claim transaction   *)
(* until that transaction commits.                                         *)
LoopHead_once(w) == [IdleWorker EXCEPT !.pc = "stopped", !.running = FALSE]

(* The worker is back at "while self.running": it polls again, or leaves   *)
(* the loop when a shutdown signal has cleared the flag.                   *)
LoopHead(w) ==
  IF worker[w].running THEN IdleWorker
  ELSE [IdleWorker EXCEPT !.pc = "stopped", !.running = FALSE]

Locked_none(id) == FALSE

Locked(id) == \E w \in Workers : worker[w].pc = "locked" /\ worker[w].job = id

Claimable_wait ==
  {id \in Oldest({j \in RunIds : runs[j].status = JOB_STATUS_QUEUED
                                   /\ runs[j].is_cached_result = FALSE}) :
     ~Locked(id)}

Claimable_reclaim ==
  {id \in RunIds :
     /\ runs[id].is_cached_result = FALSE
     /\ ~Locked(id)
     /\ \/ runs[id].status = JOB_STATUS_QUEUED
        \/ /\ runs[id].status = JOB_STATUS_RUNNING
           /\ \A w \in Workers : worker[w].job # id}

(* The rows the SELECT of claim_next_job considers: queued, canonical,     *)
(* and not locked by another transaction (SKIP LOCKED).                    *)
Claimable ==
  {id \in RunIds :
     /\ runs[id].status = JOB_STATUS_QUEUED
     /\ runs[id].is_cached_result = FALSE
     /\ ~Locked(id)}

Bump(f, id) == IF id \in DOMAIN f THEN [f EXCEPT ![id] = @ + 1] ELSE f @@ (id :> 1)

(* claim_next_job, the SELECT: the oldest claimable row is locked.         *)
ClaimSelect(w) ==
  /\ worker[w].pc = "poll"
  /\ \E id \in Oldest(Claimable) :
       worker' = [worker EXCEPT ![w] = [IdleWorker EXCEPT !.pc = "locked", !.job = id,
                                                 !.running = worker[w].running]]
  /\ UNCHANGED <<now, runs, insights, req, claims, keyIn, keyOut, call, history>>

(* claim_next_job, the SELECT returns no row: the call returns None and    *)
(* the worker sleeps for the poll interval.                                *)
ClaimNone(w) ==
  /\ worker[w].pc = "poll"
  /\ Claimable = {}
  /\ worker' = [worker EXCEPT ![w] = [IdleWorker EXCEPT !.pc = "sleep",
                                                 !.running = worker[w].running]]
  /\ UNCHANGED <<now, runs, insights, req, claims, keyIn, keyOut, call, history>>

(* time.sleep(poll_interval) returns.                                      *)
WakeUp(w) ==
  /\ worker[w].pc = "sleep"
  /\ worker' = [worker EXCEPT ![w] = LoopHead(w)]
  /\ UNCHANGED <<now, runs, insights, req, claims, keyIn, keyOut, call, history>>

(* claim_next_job, the update and the commit: the row becomes running and  *)
(* the call returns it.                                                    *)
ClaimCommit(w) ==
  /\ worker[w].pc = "locked"
  /\ LET id == worker[w].job
     IN  /\ runs' = [runs EXCEPT ![id].status = JOB_STATUS_RUNNING,
                                 ![id].progress = 0]
         /\ claims' = Bump(claims, id)
  /\ worker' = [worker EXCEPT ![w].pc = "scan", ![w].stage = 1]
  /\ UNCHANGED <<now, insights, req, keyIn, keyOut, call, history>>

Clamp(progress) == Max(0, Min(100, progress))

update_job_progress_unguarded(id, progress) ==
  IF id \in RunIds
  THEN [runs EXCEPT ![id].progress = Clamp(progress)]
  ELSE runs

(* update_job_progress: the table after the call.                          *)
update_job_progress(id, progress) ==
  IF id \in RunIds /\ runs[id].status = JOB_STATUS_RUNNING
  THEN [runs EXCEPT ![id].progress = Clamp(progress)]
  ELSE runs

(* complete_job: the table after the call.  nb_insights stands for the     *)
(* result fields stored with it (clusters, costs, paths, notes, stats).    *)
complete_job(id, nb_insights) ==
  IF id \in RunIds
  THEN [runs EXCEPT ![id].status = JOB_STATUS_COMPLETED,
                    ![id].completed_at = now,
                    ![id].progress = 100,
                    ![id].nb_insights = nb_insights]
  ELSE runs

(* The stored length of an error text: at most 2000 characters, the last   *)
(* three of a cut text being "...".                                        *)
Truncate(len) == IF len > MaxErrorLen THEN (MaxErrorLen - 3) + 3 ELSE len

(* fail_job: the table after the call; the error text is kept as its       *)
(* length.                                                                 *)
fail_job(id, len) ==
  IF id \in RunIds
  THEN [runs EXCEPT ![id].status = JOB_STATUS_FAILED,
                    ![id].completed_at = now,
                    ![id].error_message = Truncate(len)]
  ELSE runs

(* ----------------------- the worker loop (worker.py) ------------------- *)
NbPoints == Len(ProgressPoints)

(* The next progress report of the pipeline: the fetch report is skipped   *)
(* when the data is fresh.                                                 *)
NextPoints(stage) ==
  {stage} \cup (IF ProgressPoints[stage] = FetchPoint THEN {stage + 1} ELSE {})

(* run_scan_for_worker reaches its next update_progress call.              *)
ScanProgress(w) ==
  /\ worker[w].pc = "scan"
  /\ worker[w].stage <= NbPoints
  /\ \E i \in NextPoints(worker[w].stage) :
       /\ runs' = IF worker[w].running
                  THEN update_job_progress(worker[w].job, ProgressPoints[i])
                  ELSE runs
       /\ worker' = [worker EXCEPT ![w].stage = i + 1]
  /\ UNCHANGED <<now, insights, req, claims, keyIn, keyOut, call, history>>

(* run_scan_for_worker returns its result and the worker calls            *)
(* complete_job; with no insights in the result the job is done.           *)
WorkerComplete(w) ==
  /\ worker[w].pc = "scan"
  /\ worker[w].stage = NbPoints + 1
  /\ \E n \in NbInsightsValues :
       /\ runs' = complete_job(worker[w].job, n)
       /\ worker' = [worker EXCEPT ![w] =
                       IF n > 0 THEN [@ EXCEPT !.pc = "save", !.nb = n] ELSE LoopHead(w)]
  /\ UNCHANGED <<now, insights, req, claims, keyIn, keyOut, call, history>>

WorkerScanFail_skip(w) ==
  /\ worker[w].pc = "scan"
  /\ worker[w].stage <= NbPoints
  /\ worker' = [worker EXCEPT ![w] = LoopHead(w)]
  /\ UNCHANGED <<now, runs, insights, req, claims, keyIn, keyOut, call, history>>

(* A stage of run_scan_for_worker raises and the except clause calls       *)
(* fail_job.                                                               *)
WorkerScanFail(w) ==
  /\ worker[w].pc = "scan"
  /\ worker[w].stage <= NbPoints
  /\ \E len \in ErrorLens : runs' = fail_job(worker[w].job, len)
  /\ worker' = [worker EXCEPT ![w] = LoopHead(w)]
  /\ UNCHANGED <<now, insights, req, claims, keyIn, keyOut, call, history>>

(* The worker calls save_insights after complete_job.                      *)
WorkerSaveInsights(w) ==
  /\ worker[w].pc = "save"
  /\ insights' = IF worker[w].job \in DOMAIN insights
                 THEN [insights EXCEPT ![worker[w].job] = worker[w].nb]
                 ELSE insights @@ (worker[w].job :> worker[w].nb)
  /\ worker' = [worker EXCEPT ![w] = LoopHead(w)]
  /\ UNCHANGED <<now, runs, req, claims, keyIn, keyOut, call, history>>

(* save_insights raises (its transaction is rolled back) and the except    *)
(* clause calls fail_job on the run complete_job has just completed.       *)
WorkerSaveFail(w) ==
  /\ worker[w].pc = "save"
  /\ \E len \in ErrorLens : runs' = fail_job(worker[w].job, len)
  /\ worker' = [worker EXCEPT ![w] = LoopHead(w)]
  /\ UNCHANGED <<now, insights, req, claims, keyIn, keyOut, call, history>>

(* The worker process dies (kill -9, out of memory, host loss) while it    *)
(* holds a job: nothing of the loop runs any more, no handler marks the    *)
(* run.  A claim transaction still open is rolled back by the database,    *)
(* which releases its row lock.                                            *)
WorkerCrash(w) ==
  /\ worker[w].pc \in {"locked", "scan", "save"}
  /\ worker' = [worker EXCEPT ![w] = [IdleWorker EXCEPT !.pc = "down"]]
  /\ UNCHANGED <<now, runs, insights, req, claims, keyIn, keyOut, call, history>>

(* The worker is started again: main() builds a ScanWorker and start()     *)
(* enters the loop.  Nothing at startup looks for runs left running.       *)
WorkerStart(w) ==
  /\ worker[w].pc = "down"
  /\ worker' = [worker EXCEPT ![w] = IdleWorker]
  /\ UNCHANGED <<now, runs, insights, req, claims, keyIn, keyOut, call, history>>

(* SIGINT or SIGTERM is delivered: _handle_shutdown clears the running     *)
(* flag and returns, and the interrupted code goes on.                     *)
Shutdown(w) ==
  /\ worker[w].running
  /\ worker[w].pc \notin {"down", "stopped"}
  /\ worker' = [worker EXCEPT ![w].running = FALSE]
  /\ UNCHANGED <<now, runs, insights, req, claims, keyIn, keyOut, call, history>>

(* ------------------------ reads and row deletion ----------------------- *)
Restrict(f, S) == [x \in S |-> f[x]]

(* A row of runs is deleted in the database (no code of the service does   *)
(* it).  The foreign keys decide the rest: source_run_id of the rows that  *)
(* reference it is SET NULL, its insights are deleted (CASCADE).  Taken    *)
(* while no request and no worker is working with the row.                 *)
DeleteRun(id) ==
  /\ id \in RunIds
  /\ \A q \in Reqs : req[q].pc = "idle"
  /\ \A w \in Workers : worker[w].job # id
  /\ runs' = [j \in RunIds \ {id} |->
               IF runs[j].source_run_id = id
               THEN [runs[j] EXCEPT !.source_run_id = NoId]
               ELSE runs[j]]
  /\ insights' = Restrict(insights, DOMAIN insights \ {id})
  /\ claims' = Restrict(claims, DOMAIN claims \ {id})
  /\ UNCHANGED <<now, worker, req, keyIn, keyOut, call, history>>

(* GET /runs/{run_id}: 404 when get_job_status returns None, else its      *)
(* fields.                                                                 *)
get_run_status(id) ==
  IF id \notin RunIds
  THEN [code |-> 404]
  ELSE [code |-> 200, body |-> get_job_status(id)]

(* cache.get_effective_run_id_for_insights                                 *)
get_effective_run_id_for_insights(id) ==
  IF runs[id].is_cached_result /\ runs[id].source_run_id # NoId
  THEN runs[id].source_run_id
  ELSE id

(* GET /runs/{run_id}/insights: the status code and the number of          *)
(* insights found before the request's filters.                            *)
get_run_insights_endpoint(id) ==
  IF id \notin RunIds THEN [code |-> 404]
  ELSE LET effective == get_effective_run_id_for_insights(id)
           src == runs[id].source_run_id
           found == IF effective \in DOMAIN insights THEN insights[effective] ELSE 0
       IN  IF runs[id].is_cached_result /\ src # NoId /\ src \in RunIds
              /\ runs[src].status # JOB_STATUS_COMPLETED
           THEN [code |-> 200, total_count |-> 0]
           ELSE IF runs[id].is_cached_result /\ src # NoId /\ src \notin RunIds
           THEN [code |-> 500]
           ELSE [code |-> 200, total_count |-> found]

(* A client polls the status of a run.                                     *)
GetStatusCall(id) ==
  /\ call' = [op |-> "get_run_status", run_id |-> id, result |-> get_run_status(id)]
  /\ UNCHANGED <<now, runs, insights, worker, req, claims, keyIn, keyOut, history>>

(* A client lists the insights of a run.                                   *)
GetInsightsCall(id) ==
  /\ call' = [op |-> "get_run_insights_endpoint", run_id |-> id,
              result |-> get_run_insights_endpoint(id)]
  /\ UNCHANGED <<now, runs, insights, worker, req, claims, keyIn, keyOut, history>>

(* ----------------------------- specification --------------------------- *)
ApiStep(slots, bodies) ==
  \E q \in slots :
    \/ \E u \in Users, body \in bodies :
         \/ ReqLimitReached(q, u, body) /\ UNCHANGED <<call, history>>
         \/ ReqInvalid(q, u, body) /\ UNCHANGED <<call, history>>
         \/ ReqFind(q, u, body) /\ UNCHANGED <<call, history>>
    \/ ReqCreateCached(q) /\ UNCHANGED <<call, history>>
    \/ ReqCreateCanonical(q) /\ UNCHANGED <<call, history>>
    \/ ReqIdConflict(q) /\ UNCHANGED <<call, history>>

(* The same steps with the handler's response recorded: the status code    *)
(* of the HTTPException raised, or 200 with the run id returned.           *)
Response(q, u, body, code) ==
  [op |-> "create_run", user |-> u, body |-> body, code |-> code,
   run_id |-> IF code = 200 THEN req[q].run_id ELSE NoId]

ApiStepLogged(slots, bodies) ==
  \E q \in slots :
    \/ \E u \in Users, body \in bodies :
         \/ ReqLimitReached(q, u, body) /\ call' = Response(q, u, body, 403) /\ UNCHANGED history
         \/ ReqInvalid(q, u, body) /\ call' = Response(q, u, body, 400) /\ UNCHANGED history
         \/ ReqFind(q, u, body) /\ UNCHANGED <<call, history>>
    \/ ReqCreateCached(q) /\ call' = Response(q, req[q].user, req[q].body, 200) /\ UNCHANGED history
    \/ ReqCreateCanonical(q) /\ call' = Response(q, req[q].user, req[q].body, 200) /\ UNCHANGED history
    \/ ReqIdConflict(q) /\ call' = Response(q, req[q].user, req[q].body, 500) /\ UNCHANGED history

WorkerStep(ws) ==
  \E w \in ws :
    \/ ClaimSelect(w)
    \/ ClaimNone(w)
    \/ WakeUp(w)
    \/ ClaimCommit(w)
    \/ ScanProgress(w)
    \/ WorkerComplete(w)
    \/ WorkerScanFail(w)
    \/ WorkerSaveInsights(w)
    \/ WorkerSaveFail(w)

(* Two workers poll the queue while requests arrive one after another.     *)
Next == Tick \/ ApiStep({"q1"}, ScanRequests) \/ WorkerStep(Workers)

Spec == Init /\ [][Next]_vars

(* Two requests for one configuration are handled at the same time (two    *)
(* API processes) while one worker polls the queue.                        *)
NextRace == Tick \/ ApiStep(Reqs, RaceRequests) \/ WorkerStep({"w1"})

SpecRace == Init /\ [][NextRace]_vars

(* -------------------- concurrent claim_next_job calls ------------------ *)
(* A runs table of k canonical rows, one created per second, each at some  *)
(* point of its life; every worker then calls claim_next_job once.         *)
BatchRow(t, status) ==
  [status |-> status,
   progress |-> IF status = JOB_STATUS_COMPLETED THEN 100 ELSE 0,
   created_at |-> t,
   completed_at |-> IF status \in {JOB_STATUS_COMPLETED, JOB_STATUS_FAILED}
                    THEN t ELSE Null,
   error_message |-> IF status = JOB_STATUS_FAILED THEN MaxErrorLen ELSE Null,
   cache_key |-> build_cache_key("deep", "discover", Null, DefaultPattern, t,
                                 "u2", NoConfigName),
   is_cached_result |-> FALSE,
   source_run_id |-> NoId,
   user_id |-> "u2",
   mode |-> "deep",
   run_mode |-> "discover",
   max_insights |-> Null,
   input_pattern |-> DefaultPattern,
   nb_insights |-> IF status = JOB_STATUS_COMPLETED THEN 0 ELSE Null]

BatchIds(k) == {generate_run_id(t) : t \in 0..(k - 1)}

BatchTime(id) == id[1] * DayLength + id[2]

InitBatch ==
  /\ now = MaxBatch
  /\ \E k \in 0..MaxBatch :
       \E st \in [BatchIds(k) -> VALID_JOB_STATUSES] :
         /\ runs = [id \in BatchIds(k) |-> BatchRow(BatchTime(id), st[id])]
         /\ claims = [id \in {j \in BatchIds(k) : st[j] # JOB_STATUS_QUEUED} |-> 1]
  /\ insights = <<>>
  /\ worker = [w \in Workers |-> IdleWorker]
  /\ req = [q \in Reqs |-> IdleReq]
  /\ keyIn = NoKeyIn
  /\ keyOut = NoKeyIn
  /\ history = NoHistory
  /\ call = NoCall

NextBatch == \E w \in Workers : ClaimSelect(w) \/ ClaimNone(w) \/ ClaimCommit(w)

SpecBatch == InitBatch /\ [][NextBatch]_vars

(* ---------------------- POST /runs, one at a time ---------------------- *)
(* Bodies with every combination of a valid or invalid mode and run_mode.  *)
AnyRequests ==
  [mode : {"deep", "fast"}, run_mode : {"discover", "watch"},
   max_insights : {Null}, input_pattern : {DefaultPattern}]

(* Clients send requests one after another as time passes, while one       *)
(* worker processes the queue.                                             *)
NextApi == Tick \/ ApiStepLogged({"q1"}, AnyRequests) \/ WorkerStep({"w1"})

SpecApi == Init /\ [][NextApi]_vars

(* ------------------- requests for one configuration -------------------- *)
(* The clock advances by one second within the day.                        *)
TickDay ==
  /\ DateOf(now + 1) = DateOf(now)
  /\ now' = now + 1
  /\ UNCHANGED <<runs, insights, worker, req, claims, keyIn, keyOut, call, history>>

(* Over one day clients send one configuration (or a body the handler      *)
(* rejects), one request at a time, while the workers claim the queued     *)
(* runs.                                                                   *)
NextCache ==
  \/ TickDay
  \/ ApiStep({"q1"}, RaceRequests)
  \/ \E w \in Workers : ClaimSelect(w) \/ ClaimCommit(w)

SpecCache == Init /\ [][NextCache]_vars

(* ------------------- worker loops over a filled queue ------------------ *)
(* The workers run their loops over such a table, and a worker process may *)
(* die and be started again at any point of a job.                         *)
NextLoop ==
  \/ WorkerStep(Workers)
  \/ \E w \in Workers : WorkerCrash(w) \/ WorkerStart(w)

SpecLoop == InitBatch /\ [][NextLoop]_vars

(* The workers run their loops over such a table.  Worker w1 keeps         *)
(* polling; a claim transaction of any worker ends and a job a worker has  *)
(* claimed is carried on until the pipeline has returned or raised and     *)
(* the worker has recorded the outcome.  Worker w2 may stop polling.       *)
Poll(w) == ClaimSelect(w) \/ ClaimNone(w) \/ WakeUp(w)

Busy(w) ==
  \/ ClaimCommit(w)
  \/ ScanProgress(w)
  \/ WorkerComplete(w)
  \/ WorkerScanFail(w)
  \/ WorkerSaveInsights(w)
  \/ WorkerSaveFail(w)

NextFair == WorkerStep(Workers)

SpecFair ==
  /\ InitBatch
  /\ [][NextFair]_vars
  /\ WF_vars(Poll("w1"))
  /\ \A w \in Workers : WF_vars(Busy(w))

(* The workers run their loops over such a table and each may be sent a    *)
(* shutdown signal at any point.                                           *)
NextShutdown == WorkerStep(Workers) \/ \E w \in Workers : Shutdown(w)

SpecShutdown == InitBatch /\ [][NextShutdown]_vars

(* --------------------- reads of runs that may vanish ------------------- *)
(* Over a table of earlier runs a client enqueues, rows are deleted, and   *)
(* clients read the status and the insights of every run id.               *)
ReadIds == BatchIds(MaxBatch + 1)

NextRead ==
  \/ ApiStep({"q1"}, RaceRequests)
  \/ \E id \in ReadIds : DeleteRun(id) \/ GetStatusCall(id) \/ GetInsightsCall(id)

SpecRead == InitBatch /\ [][NextRead]_vars

(* -------------------- update_job_progress calls ------------------------ *)
(* Percentages a caller may pass, in and out of range.                     *)
ProgressInputs == {0 - 5, 0, 50, 100, 150}

(* update_job_progress is called with any run id and any percentage on a   *)
(* table holding runs in every status.                                     *)
UpdateProgressCall ==
  \E id \in BatchIds(MaxBatch), pct \in ProgressInputs :
    /\ runs' = update_job_progress(id, pct)
    /\ call' = [op |-> "update_job_progress", run_id |-> id, progress |-> pct]
    /\ UNCHANGED <<now, insights, worker, req, claims, keyIn, keyOut, history>>

SpecProgress == InitBatch /\ [][UpdateProgressCall]_vars

(* ------------------ history similarity (history.py) -------------------- *)
(* Similarities, thresholds and the penalty multiplier are multiples of    *)
(* 1/SimScale, written as their numerators: a cosine similarity is within  *)
(* -SimScale..SimScale, alpha within 0..SimScale.  A penalty is then a     *)
(* multiple of 1/SimScale^2 and an adjusted score a multiple of            *)
(* 1/SimScale^2 of the score unit.                                         *)
SimValues == (0 - SimScale)..SimScale
Thresholds == 0..SimScale

SetMax(S) == CHOOSE m \in S : \A x \in S : x <= m

compute_detailed_similarity_overlap(sims, tau, exact_dup_threshold) ==
  IF sims = {}
  THEN [max_similarity |-> 0, is_duplicate |-> FALSE, is_recurring |-> FALSE]
  ELSE LET max_sim == SetMax(sims)
       IN  [max_similarity |-> max_sim,
            is_duplicate |-> max_sim >= exact_dup_threshold,
            is_recurring |-> max_sim >= tau]

(* ClusterHistory.compute_detailed_similarity for one new insight: sims    *)
(* are its cosine similarities to the history entries of the window.       *)
compute_detailed_similarity(sims, tau, exact_dup_threshold) ==
  IF sims = {}
  THEN [max_similarity |-> 0, is_duplicate |-> FALSE, is_recurring |-> FALSE]
  ELSE LET max_sim == SetMax(sims)
           is_exact_duplicate == max_sim >= exact_dup_threshold
       IN  [max_similarity |-> max_sim,
            is_duplicate |-> is_exact_duplicate,
            is_recurring |-> (max_sim >= tau) /\ ~is_exact_duplicate]

compute_similarity_penalty_signed(sims, tau, alpha) ==
  IF sims = {} THEN 0 ELSE alpha * (SetMax(sims) - tau)

(* ClusterHistory.compute_similarity_penalty for one new insight, in       *)
(* units of 1/SimScale^2.                                                  *)
compute_similarity_penalty(sims, tau, alpha) ==
  IF sims = {} THEN 0 ELSE alpha * Max(0, SetMax(sims) - tau)

(* ClusterHistory.apply_penalty_to_scores for one score: score * (1 -      *)
(* penalty), in units of 1/SimScale^2.                                     *)
apply_penalty_to_scores(priority_score, sims, tau, alpha) ==
  priority_score * (SimScale * SimScale - compute_similarity_penalty(sims, tau, alpha))

(* The arguments of one call: the similarities of a new insight to at most *)
(* two history entries, the thresholds, alpha and the raw score.           *)
SimInputs ==
  [op : {"input"},
   sims : {S \in SUBSET SimValues : Cardinality(S) <= 2},
   tau : Thresholds,
   exact_dup_threshold : Thresholds,
   alpha : 0..SimScale,
   priority_score : {0, 1, MaxScore}]

InitSim ==
  /\ call \in SimInputs
  /\ now = 0
  /\ runs = <<>>
  /\ insights = <<>>
  /\ worker = [w \in Workers |-> IdleWorker]
  /\ req = [q \in Reqs |-> IdleReq]
  /\ claims = <<>>
  /\ keyIn = NoKeyIn
  /\ keyOut = NoKeyIn
  /\ history = NoHistory

(* The new insight is classified against the history.                      *)
ClassifyCall ==
  /\ call.op = "input"
  /\ call' = [op |-> "compute_detailed_similarity", args |-> call,
              result |-> compute_detailed_similarity(call.sims, call.tau,
                                                     call.exact_dup_threshold)]
  /\ UNCHANGED <<now, runs, insights, worker, req, claims, keyIn, keyOut, history>>

(* The score of the new insight is adjusted.                               *)
PenaltyCall ==
  /\ call.op = "input"
  /\ call' = [op |-> "apply_penalty_to_scores", args |-> call,
              result |-> apply_penalty_to_scores(call.priority_score, call.sims,
                                                 call.tau, call.alpha)]
  /\ UNCHANGED <<now, runs, insights, worker, req, claims, keyIn, keyOut, history>>

SpecSim == InitSim /\ [][ClassifyCall \/ PenaltyCall]_vars

(* ----------------------- history file (history.py) --------------------- *)
(* history.file is the list of entries of the JSONL file, history.mem[w]   *)
(* the entries list of the ClusterHistory object of the run in process w,  *)
(* history.done[w] the number of runs process w has ended.  Dates are day  *)
(* numbers; an entry carries the run that appended it in place of its      *)
(* title, problem, score and embedding.                                    *)
Cutoff == DateOf(now) - RetentionDays

OldEntry(d) == [id |-> <<d, 0>>, date |-> d, src |-> <<"old", 0>>]

RECURSIVE EntriesOf(_, _)
EntriesOf(D, d) ==
  IF d > HistDays THEN <<>>
  ELSE (IF d \in D THEN <<OldEntry(d)>> ELSE <<>>) \o EntriesOf(D, d + 1)

(* ClusterHistory.cleanup_old_entries: the entries list after it.          *)
cleanup_old_entries(entries) == SelectSeq(entries, LAMBDA e : e.date >= Cutoff)

(* ClusterHistory.add_clusters for the one cluster of the run of w.        *)
add_clusters(entries, w) ==
  Append(entries, [id |-> <<DateOf(now), 0>>, date |-> DateOf(now),
                   src |-> <<w, history.done[w]>>])

InitHistory ==
  /\ now = HistDays * DayLength
  /\ history \in {[NoHistory EXCEPT !.file = EntriesOf(D, 0)] : D \in SUBSET (0..HistDays)}
  /\ runs = <<>>
  /\ insights = <<>>
  /\ worker = [w \in Workers |-> IdleWorker]
  /\ req = [q \in Reqs |-> IdleReq]
  /\ claims = <<>>
  /\ keyIn = NoKeyIn
  /\ keyOut = NoKeyIn
  /\ call = NoCall

(* Step 6 of a run: load_or_create_history reads the file into the run's   *)
(* object and cleans it up; the cleanup rewrites the file when it removed  *)
(* something.                                                              *)
HistLoad(w) ==
  /\ ~history.mem[w].loaded
  /\ history.done[w] < MaxHistRuns
  /\ LET cleaned == cleanup_old_entries(history.file)
     IN  history' = [history EXCEPT
                       !.mem[w] = [loaded |-> TRUE, entries |-> cleaned],
                       !.file = IF Len(cleaned) < Len(history.file)
                                THEN cleaned ELSE @]
  /\ UNCHANGED <<now, runs, insights, worker, req, claims, keyIn, keyOut, call>>

(* Step 11 of a run: add_clusters appends to the run's object and save     *)
(* rewrites the file from it.                                              *)
HistAppendSave(w) ==
  /\ history.mem[w].loaded
  /\ LET entries == add_clusters(history.mem[w].entries, w)
     IN  history' = [history EXCEPT
                       !.file = entries,
                       !.mem[w] = NoMem,
                       !.done[w] = @ + 1]
  /\ UNCHANGED <<now, runs, insights, worker, req, claims, keyIn, keyOut, call>>

(* The run raises between step 6 and step 11: its object is dropped.       *)
HistAbandon(w) ==
  /\ history.mem[w].loaded
  /\ history' = [history EXCEPT !.mem[w] = NoMem, !.done[w] = @ + 1]
  /\ UNCHANGED <<now, runs, insights, worker, req, claims, keyIn, keyOut, call>>

NextHistory ==
  \E w \in Workers : HistLoad(w) \/ HistAppendSave(w) \/ HistAbandon(w)

SpecHistory == InitHistory /\ [][NextHistory]_vars

(* --------------------------- MMR reranking (mmr.py) -------------------- *)
(* Candidates are numbered 1..n (the source counts from 0).  An embeddings *)
(* argument is given by the cosine similarity of each pair of candidates,  *)
(* a numerator over SimScale like lambda_param.  Normalized scores are     *)
(* fractions num/den, and an MMR score is written in units of              *)
(* 1/(SimScale^2 * den), the same unit for all candidates of one call.     *)
PairSims == {0 - (SimScale \div 2), 0, SimScale}
Sectors == {"saas", "health"}
Pairs(n) == {p \in (1..n) \X (1..n) : p[1] < p[2]}

cosine_similarity(embeddings, i, j) ==
  IF i = j THEN SimScale ELSE embeddings[<<Min(i, j), Max(i, j)>>]

SeqRange(f) == {f[i] : i \in DOMAIN f}
SetMin(S) == CHOOSE m \in S : \A x \in S : m <= x

(* normalize_scores: ones when all scores are equal.                       *)
normalize_scores(scores) ==
  LET min_score == SetMin(SeqRange(scores))
      max_score == SetMax(SeqRange(scores))
  IN  IF max_score = min_score
      THEN [num |-> [i \in DOMAIN scores |-> 1], den |-> 1]
      ELSE [num |-> [i \in DOMAIN scores |-> scores[i] - min_score],
            den |-> max_score - min_score]

(* Below every finite MMR score: stands for -inf.                          *)
NegInf == 0 - (2 * SimScale * SimScale * MaxScore + 1)

(* np.argmax: the first index of the maximum.                              *)
ArgMax(f) ==
  CHOOSE i \in DOMAIN f :
    /\ \A j \in DOMAIN f : f[j] <= f[i]
    /\ \A j \in DOMAIN f : j < i => f[j] < f[i]

compute_mmr_scores_formula(priority_scores, embeddings, selected_indices, lambda_param) ==
  LET normalized_scores == normalize_scores(priority_scores)
      sel == SeqRange(selected_indices)
      max_similarities(i) ==
        IF sel = {} THEN 0
        ELSE SetMax({cosine_similarity(embeddings, i, j) : j \in sel})
  IN  [i \in DOMAIN priority_scores |->
         IF i \in sel THEN NegInf
         ELSE lambda_param * normalized_scores.num[i] * SimScale
              - (SimScale - lambda_param) * max_similarities(i) * normalized_scores.den]

compute_mmr_scores_unmasked(priority_scores, embeddings, selected_indices, lambda_param) ==
  LET normalized_scores == normalize_scores(priority_scores)
      max_similarities(i) ==
        SetMax({cosine_similarity(embeddings, i, j) : j \in SeqRange(selected_indices)})
  IN  IF selected_indices = <<>>
      THEN [i \in DOMAIN priority_scores |->
              normalized_scores.num[i] * SimScale * SimScale]
      ELSE [i \in DOMAIN priority_scores |->
              lambda_param * normalized_scores.num[i] * SimScale
              - (SimScale - lambda_param) * max_similarities(i) * normalized_scores.den]

compute_mmr_scores(priority_scores, embeddings, selected_indices, lambda_param) ==
  LET normalized_scores == normalize_scores(priority_scores)
      sel == SeqRange(selected_indices)
      max_similarities(i) ==
        SetMax({cosine_similarity(embeddings, i, j) : j \in sel})
  IN  IF selected_indices = <<>>
      THEN [i \in DOMAIN priority_scores |->
              normalized_scores.num[i] * SimScale * SimScale]
      ELSE [i \in DOMAIN priority_scores |->
              IF i \in sel THEN NegInf
              ELSE lambda_param * normalized_scores.num[i] * SimScale
                   - (SimScale - lambda_param) * max_similarities(i) * normalized_scores.den]

RECURSIVE mmr_loop(_, _, _, _, _, _, _)
mmr_loop(priority_scores, embeddings, lambda_param, top_k, rank, selected_indices, reranked_items) ==
  IF rank >= top_k
  THEN [reranked_items |-> reranked_items, selected_indices |-> selected_indices]
  ELSE LET mmr_scores == compute_mmr_scores(priority_scores, embeddings,
                                            selected_indices, lambda_param)
           best_idx == ArgMax(mmr_scores)
       IN  mmr_loop(priority_scores, embeddings, lambda_param, top_k, rank + 1,
                    Append(selected_indices, best_idx),
                    Append(reranked_items, [idx |-> best_idx, mmr_rank |-> rank + 1]))

(* mmr_rerank: the reranked items (candidate and mmr_rank) and the         *)
(* selected indices.                                                       *)
mmr_rerank(n_items, embeddings, priority_scores, top_k, lambda_param) ==
  mmr_loop(priority_scores, embeddings, lambda_param, Min(top_k, n_items), 0, <<>>, <<>>)

(* The inputs of one call: a pool of 1..MaxPool candidates.                *)
MmrInputs ==
  UNION {[op : {"input"},
          n_items : {n},
          priority_scores : [1..n -> {0, 1, MaxScore}],
          embeddings : [Pairs(n) -> PairSims],
          sectors : [1..n -> Sectors],
          top_k : 0..(MaxPool + 1),
          lambda_param : 0..SimScale] : n \in 1..MaxPool}

InitMmr ==
  /\ call \in MmrInputs
  /\ now = 0
  /\ runs = <<>>
  /\ insights = <<>>
  /\ worker = [w \in Workers |-> IdleWorker]
  /\ req = [q \in Reqs |-> IdleReq]
  /\ claims = <<>>
  /\ keyIn = NoKeyIn
  /\ keyOut = NoKeyIn
  /\ history = NoHistory

MmrCall ==
  /\ call.op = "input"
  /\ call' = [op |-> "mmr_rerank", args |-> call,
              result |-> mmr_rerank(call.n_items, call.embeddings,
                                    call.priority_scores, call.top_k,
                                    call.lambda_param)]
  /\ UNCHANGED <<now, runs, insights, worker, req, claims, keyIn, keyOut, history>>

(* sector_to_indices[sector] of mmr_rerank_by_sector.                      *)
SectorIndices(sectors, sector) == {idx \in DOMAIN sectors : sectors[idx] = sector}

RECURSIVE SumOver(_, _)
SumOver(scores, S) ==
  IF S = {} THEN 0
  ELSE LET i == CHOOSE x \in S : TRUE IN scores[i] + SumOver(scores, S \ {i})

(* np.mean of the scores of sector a is above that of sector b.            *)
MeanAbove(priority_scores, sectors, a, b) ==
  SumOver(priority_scores, SectorIndices(sectors, a)) * Cardinality(SectorIndices(sectors, b))
    > SumOver(priority_scores, SectorIndices(sectors, b)) * Cardinality(SectorIndices(sectors, a))

(* The sectors of the pool in the order of the dict: first occurrence.     *)
RECURSIVE InsertionOrder(_, _)
InsertionOrder(sectors, from) ==
  IF from > Len(sectors) THEN <<>>
  ELSE IF \E j \in 1..(from - 1) : sectors[j] = sectors[from]
       THEN InsertionOrder(sectors, from + 1)
       ELSE <<sectors[from]>> \o InsertionOrder(sectors, from + 1)

sorted_sectors_unsorted(priority_scores, sectors) == InsertionOrder(sectors, 1)

(* sorted(..., reverse=True) by mean score: a stable sort, so sectors of   *)
(* equal mean keep the order of the dict.                                  *)
RECURSIVE StableSortDesc(_, _, _)
StableSortDesc(priority_scores, sectors, rest) ==
  IF rest = <<>> THEN <<>>
  ELSE LET first == CHOOSE i \in 1..Len(rest) :
                      /\ \A j \in 1..Len(rest) :
                           ~MeanAbove(priority_scores, sectors, rest[j], rest[i])
                      /\ \A j \in 1..(i - 1) :
                           MeanAbove(priority_scores, sectors, rest[i], rest[j])
       IN  <<rest[first]>> \o
           StableSortDesc(priority_scores, sectors,
                          SubSeq(rest, 1, first - 1) \o SubSeq(rest, first + 1, Len(rest)))

sorted_sectors(priority_scores, sectors) ==
  StableSortDesc(priority_scores, sectors, InsertionOrder(sectors, 1))

(* The MMR loop within one sector (mmr.py 193-224); st holds               *)
(* reranked_items and selected_indices.                                    *)
RECURSIVE sector_loop(_, _, _, _, _, _)
sector_loop(priority_scores, embeddings, lambda_param, available_indices, k, st) ==
  IF k <= 0 THEN st
  ELSE LET scores == compute_mmr_scores(priority_scores, embeddings,
                                        st.selected_indices, lambda_param)
           sector_mmr_scores ==
             [idx \in DOMAIN priority_scores |->
                IF idx \in available_indices THEN scores[idx] ELSE NegInf]
           best_idx == ArgMax(sector_mmr_scores)
       IN  IF sector_mmr_scores[best_idx] = NegInf THEN st
           ELSE sector_loop(priority_scores, embeddings, lambda_param,
                            available_indices \ {best_idx}, k - 1,
                            [reranked_items |->
                               Append(st.reranked_items,
                                      [idx |-> best_idx,
                                       mmr_rank |-> Len(st.reranked_items) + 1]),
                             selected_indices |-> Append(st.selected_indices, best_idx)])

(* The loop over the sorted sectors (mmr.py 180-224).                      *)
RECURSIVE sectors_loop(_, _, _, _, _, _, _)
sectors_loop(priority_scores, embeddings, sectors, top_k_per_sector, lambda_param, order, st) ==
  IF order = <<>> THEN st
  ELSE LET available_indices ==
             SectorIndices(sectors, Head(order)) \ SeqRange(st.selected_indices)
           k == Min(top_k_per_sector, Cardinality(available_indices))
       IN  sectors_loop(priority_scores, embeddings, sectors, top_k_per_sector,
                        lambda_param, Tail(order),
                        IF available_indices = {} THEN st
                        ELSE sector_loop(priority_scores, embeddings, lambda_param,
                                         available_indices, k, st))

mmr_rerank_by_sector(embeddings, priority_scores, sectors, top_k_per_sector, lambda_param) ==
  sectors_loop(priority_scores, embeddings, sectors, top_k_per_sector, lambda_param,
               sorted_sectors(priority_scores, sectors),
               [reranked_items |-> <<>>, selected_indices |-> <<>>])

SectorCall ==
  /\ call.op = "input"
  /\ call' = [op |-> "mmr_rerank_by_sector", args |-> call,
              result |-> mmr_rerank_by_sector(call.embeddings, call.priority_scores,
                                              call.sectors, call.top_k,
                                              call.lambda_param)]
  /\ UNCHANGED <<now, runs, insights, worker, req, claims, keyIn, keyOut, history>>

NextMmr == MmrCall \/ SectorCall

SpecMmr == InitMmr /\ [][NextMmr]_vars

(* ---------------------- priority score (priority.py) ------------------- *)
(* Component scores are whole numbers of the 0..10 scale and weights whole *)
(* numbers of a common unit; a priority score is written in hundredths,    *)
(* the precision round(.., 2) keeps.                                       *)
ScoreMax == 10

(* round(n / d, 2 places) for n in hundredths and d > 0, ties to even.     *)
RoundDiv(n, d) ==
  LET q == n \div d
      r == n % d
  IN  IF 2 * r < d THEN q
      ELSE IF 2 * r > d THEN q + 1
      ELSE IF q % 2 = 0 THEN q ELSE q + 1

(* calculate_priority_score, in hundredths.  combined_pain10 is ten times  *)
(* combined_pain and priority10 ten times the weighted sum before the      *)
(* division by total_weight.                                               *)
calculate_priority_score(pain_score_llm, heuristic_score, traction_score, novelty_score, wtp_score, trend_score, pain_weight, traction_weight, novelty_weight, wtp_weight, trend_weight) ==
  LET combined_pain10 == pain_score_llm * 7 + heuristic_score * 3
      sum == pain_weight + traction_weight + novelty_weight + wtp_weight + trend_weight
      total_weight == IF sum = 0 THEN 1 ELSE sum
      priority10 == combined_pain10 * pain_weight
                    + 10 * (traction_score * traction_weight
                            + novelty_score * novelty_weight
                            + wtp_score * wtp_weight
                            + trend_score * trend_weight)
  IN  Min(RoundDiv(10 * priority10, total_weight), 100 * ScoreMax)

ComponentScores == {0, ScoreMax \div 2, ScoreMax}
Weights == 0..MaxWeight

PriorityInputs ==
  [op : {"input"},
   pain_score_llm : ComponentScores, heuristic_score : ComponentScores,
   traction_score : ComponentScores, novelty_score : ComponentScores,
   wtp_score : ComponentScores, trend_score : ComponentScores,
   pain_weight : Weights, traction_weight : Weights, novelty_weight : Weights,
   wtp_weight : Weights, trend_weight : Weights]

InitPriority ==
  /\ call \in PriorityInputs
  /\ now = 0
  /\ runs = <<>>
  /\ insights = <<>>
  /\ worker = [w \in Workers |-> IdleWorker]
  /\ req = [q \in Reqs |-> IdleReq]
  /\ claims = <<>>
  /\ keyIn = NoKeyIn
  /\ keyOut = NoKeyIn
  /\ history = NoHistory

PriorityCall ==
  /\ call.op = "input"
  /\ call' = [op |-> "calculate_priority_score", args |-> call,
              result |-> calculate_priority_score(
                           call.pain_score_llm, call.heuristic_score,
                           call.traction_score, call.novelty_score,
                           call.wtp_score, call.trend_score,
                           call.pain_weight, call.traction_weight,
                           call.novelty_weight, call.wtp_weight, call.trend_weight)]
  /\ UNCHANGED <<now, runs, insights, worker, req, claims, keyIn, keyOut, history>>

SpecPriority == InitPriority /\ [][PriorityCall]_vars

(* --------------- ranks of the stored insights (pipeline) --------------- *)
(* Steps 6 to 8 of run_enriched_pipeline for the n insights of a run, in   *)
(* the order step 7 returns them: the rank field of every insight of       *)
(* all_insights, the list that is stored.  With use_history_penalty step 6 *)
(* calls compute_detailed_similarity and apply_penalty_to_scores with the  *)
(* keywords duplicate_threshold and penalty_factor, which history.py does  *)
(* not define: the call raises TypeError.  Without it no insight is a      *)
(* historical duplicate.                                                   *)
run_enriched_pipeline(n, saas_viable, run_mode, use_history_penalty, ns_saas_viable_filter) ==
  IF use_history_penalty THEN [raised |-> TRUE]
  ELSE LET is_historical_duplicate == [i \in 1..n |-> FALSE]
           kept(i) == /\ ~is_historical_duplicate[i]
                      /\ ns_saas_viable_filter => saas_viable[i]
       IN  [raised |-> FALSE,
            rank |-> [i \in 1..n |->
                        IF run_mode = "discover" /\ kept(i)
                        THEN Cardinality({j \in 1..i : kept(j)})
                        ELSE i]]

RankInputs ==
  UNION {[op : {"input"},
          n : {n},
          saas_viable : [1..n -> BOOLEAN],
          run_mode : {"discover", "track"},
          use_history_penalty : BOOLEAN,
          ns_saas_viable_filter : BOOLEAN] : n \in 1..MaxPool}

InitRank ==
  /\ call \in RankInputs
  /\ now = 0
  /\ runs = <<>>
  /\ insights = <<>>
  /\ worker = [w \in Workers |-> IdleWorker]
  /\ req = [q \in Reqs |-> IdleReq]
  /\ claims = <<>>
  /\ keyIn = NoKeyIn
  /\ keyOut = NoKeyIn
  /\ history = NoHistory

(* A run executes the pipeline; when it returns, all_insights is stored    *)
(* with the ranks it carries.                                              *)
RankCall ==
  /\ call.op = "input"
  /\ call' = [op |-> "run_enriched_pipeline", args |-> call,
              result |-> run_enriched_pipeline(call.n, call.saas_viable, call.run_mode,
                                               call.use_history_penalty,
                                               call.ns_saas_viable_filter)]
  /\ UNCHANGED <<now, runs, insights, worker, req, claims, keyIn, keyOut, history>>

SpecRank == InitRank /\ [][RankCall]_vars

(* ------------------------- build_cache_key calls ----------------------- *)
KeyInputs ==
  [mode : {"light", "deep"},
   run_mode : {"discover", "track"},
   max_insights : {Null, 20},
   input_pattern : {DefaultPattern, "data/raw/hn_*.json"},
   t : 0..MaxKeyTime,
   user_id : Users,
   config_name : {NoConfigName, "weekly"}]

InitKey ==
  /\ keyIn \in KeyInputs \X KeyInputs
  /\ keyOut = NoKeyIn
  /\ history = NoHistory
  /\ call = NoCall
  /\ now = 0
  /\ runs = <<>>
  /\ insights = <<>>
  /\ worker = [w \in Workers |-> IdleWorker]
  /\ req = [q \in Reqs |-> IdleReq]
  /\ claims = <<>>

KeyOf(in) ==
  build_cache_key(in.mode, in.run_mode, in.max_insights, in.input_pattern, in.t,
                  in.user_id, in.config_name)

(* The two requests compute their cache keys.                              *)
BuildKeys ==
  /\ keyIn # NoKeyIn
  /\ keyOut = NoKeyIn
  /\ keyOut' = <<KeyOf(keyIn[1]), KeyOf(keyIn[2])>>
  /\ UNCHANGED <<now, runs, insights, worker, req, claims, keyIn, call, history>>

SpecKey == InitKey /\ [][BuildKeys]_vars

(* ============================== claims ================================= *)
Holding(w) == worker[w].pc \in {"locked", "scan", "save"}

IsCanonical(id) == runs[id].is_cached_result = FALSE
IsQueued(id) == runs[id].status = JOB_STATUS_QUEUED

(* C1: whatever the interleaving of the workers' claim_next_job calls, no  *)
(* run is returned by more than one call over its lifetime, and no two     *)
(* workers hold the same run at once.                                      *)
C1_NoDoubleClaim ==
  /\ \A id \in DOMAIN claims : claims[id] <= 1
  /\ \A w1, w2 \in Workers :
       (w1 # w2 /\ Holding(w1) /\ Holding(w2)) => worker[w1].job # worker[w2].job

(* Two workers have claimed concurrently: one holds its run while the      *)
(* other, having skipped the locked row, is committing the claim of a      *)
(* second run.                                                             *)
C1_Witness ==
  \E w1, w2 \in Workers :
    /\ worker[w1].pc = "scan" /\ worker[w2].pc = "scan"
    /\ worker[w1].job # worker[w2].job
    /\ worker[w1].job \in DOMAIN claims /\ claims[worker[w1].job] = 1
    /\ worker[w2].job \in DOMAIN claims /\ claims[worker[w2].job] = 1

(* C2: when every one of the N callers has made its claim_next_job call on *)
(* a table of M queued canonical runs, the calls that returned a run       *)
(* returned distinct runs and their number is min(M, N); a caller never    *)
(* waits: it takes the oldest queued canonical run no other caller has     *)
(* locked, and returns None, changing no run, only when there is none.     *)
BatchDone == \A w \in Workers : worker[w].pc \in {"scan", "sleep"}

BatchGot == {w \in Workers : worker[w].pc = "scan"}

BatchLeft == {id \in RunIds : IsQueued(id) /\ IsCanonical(id)}

C2_Count ==
  BatchDone =>
    /\ \A w1, w2 \in BatchGot : w1 # w2 => worker[w1].job # worker[w2].job
    /\ Cardinality(BatchGot)
         = Min(Cardinality(BatchGot) + Cardinality(BatchLeft), Cardinality(Workers))

LockedByOther(w, id) ==
  \E o \in Workers \ {w} : worker[o].pc = "locked" /\ worker[o].job = id

C2_Select ==
  \A w \in Workers :
    /\ (worker[w].pc = "poll" /\ worker'[w].pc = "locked") =>
         LET id == worker'[w].job
         IN  /\ id \in RunIds /\ IsQueued(id) /\ IsCanonical(id)
             /\ ~LockedByOther(w, id)
             /\ \A j \in RunIds :
                  (IsQueued(j) /\ IsCanonical(j) /\ ~LockedByOther(w, j))
                    => runs[id].created_at <= runs[j].created_at
             /\ runs' = runs
    /\ (worker[w].pc = "poll" /\ worker'[w].pc = "sleep") =>
         /\ \A j \in RunIds : (IsQueued(j) /\ IsCanonical(j)) => LockedByOther(w, j)
         /\ runs' = runs
    /\ worker[w].pc = "poll" => ENABLED (ClaimSelect(w) \/ ClaimNone(w))

C2_ExactlyMin == []C2_Count /\ [][C2_Select]_vars

(* Fewer queued runs than callers: one caller has claimed the run and the  *)
(* other has returned None.                                                *)
C2_Witness ==
  /\ BatchDone
  /\ \E w1, w2 \in Workers : worker[w1].pc = "scan" /\ worker[w2].pc = "sleep"
  /\ BatchLeft = {}
  /\ \E id \in RunIds : IsQueued(id) = FALSE /\ runs[id].status = JOB_STATUS_RUNNING

(* C3: a run's status only ever moves queued -> running, running ->       *)
(* completed or running -> failed, and a completed or failed run keeps its *)
(* status, whatever step of the worker's job handling raises.              *)
LegalEdge(a, b) ==
  \/ a = b
  \/ a = JOB_STATUS_QUEUED /\ b = JOB_STATUS_RUNNING
  \/ a = JOB_STATUS_RUNNING /\ b \in {JOB_STATUS_COMPLETED, JOB_STATUS_FAILED}

C3_StateMachine ==
  [][\A id \in RunIds : LegalEdge(runs[id].status, runs'[id].status)]_vars

(* C4: complete_job and fail_job called on a run that is not running leave *)
(* its status, progress, completed_at, result fields and error_message     *)
(* unchanged.                                                              *)
FinishCall(w) == WorkerComplete(w) \/ WorkerScanFail(w) \/ WorkerSaveFail(w)

C4_OnlyWhenRunning ==
  [][\A w \in Workers :
       (FinishCall(w) /\ runs[worker[w].job].status # JOB_STATUS_RUNNING)
         => StatusFields(runs'[worker[w].job]) = StatusFields(runs[worker[w].job])]_vars

LiveCanonical(key) ==
  {id \in RunIds :
     /\ runs[id].cache_key = key
     /\ IsCanonical(id)
     /\ runs[id].status \in {JOB_STATUS_RUNNING, JOB_STATUS_COMPLETED}}

C5_LookupStep ==
  \A q \in Reqs :
    (req[q].pc = "idle" /\ req'[q].pc = "found") =>
      /\ req'[q].canonical = NoId <=> LiveCanonical(req'[q].cache_key) = {}
      /\ req'[q].canonical # NoId => req'[q].canonical \in LiveCanonical(req'[q].cache_key)

C5_CreateStep ==
  \A q \in Reqs :
    (req[q].pc = "found" /\ req'[q].pc = "idle" /\ RunIds' # RunIds) =>
      LET new == runs'[req[q].run_id]
      IN  /\ RunIds' = RunIds \cup {req[q].run_id}
          /\ new.cache_key = req[q].cache_key
          /\ new.is_cached_result = (req[q].canonical # NoId)
          /\ new.source_run_id = req[q].canonical
          /\ req[q].canonical = NoId => new.status = JOB_STATUS_QUEUED
          /\ req[q].canonical # NoId =>
               /\ req[q].canonical \in RunIds
               /\ IsCanonical(req[q].canonical)
               /\ runs[req[q].canonical].cache_key = req[q].cache_key
               /\ runs[req[q].canonical].status # JOB_STATUS_QUEUED

C5_CachedRows ==
  \A c \in RunIds :
    runs[c].is_cached_result =>
      /\ runs[c].source_run_id \in RunIds
      /\ IsCanonical(runs[c].source_run_id)
      /\ runs[runs[c].source_run_id].cache_key = runs[c].cache_key
      /\ runs[runs[c].source_run_id].status # JOB_STATUS_QUEUED
      /\ runs[c].status \in {JOB_STATUS_RUNNING, JOB_STATUS_COMPLETED}

C6_LiveStatus ==
  \A c \in RunIds :
    (runs[c].is_cached_result /\ runs[c].source_run_id \in RunIds) =>
      LET s == runs[c].source_run_id
          got == get_job_status(c)
      IN  /\ got.status = runs[s].status
          /\ got.progress = runs[s].progress
          /\ got.nb_insights = runs[s].nb_insights
          /\ got.error_message = runs[s].error_message
          /\ runs[s].status = JOB_STATUS_COMPLETED =>
               /\ got.status = JOB_STATUS_COMPLETED
               /\ get_job_status(s).status = JOB_STATUS_COMPLETED
               /\ got.nb_insights = get_job_status(s).nb_insights

(* A cached run created while its canonical run was running, the canonical *)
(* run since completed with two insights: the cached row still holds the   *)
(* snapshot.                                                               *)
C6_Witness ==
  \E c \in RunIds :
    /\ runs[c].is_cached_result
    /\ runs[c].source_run_id \in RunIds
    /\ runs[c].status = JOB_STATUS_RUNNING
    /\ runs[c].nb_insights = Null
    /\ runs[runs[c].source_run_id].status = JOB_STATUS_COMPLETED
    /\ runs[runs[c].source_run_id].nb_insights = 2

(* C7: a cached run is never returned by claim_next_job nor held by a      *)
(* worker, and no claim, complete_job or fail_job ever changes its row:    *)
(* only canonical runs are transitioned.                                   *)
IsCachedRun(id) == runs[id].is_cached_result \/ runs[id].source_run_id # NoId

C7_NeverClaimed ==
  \A id \in RunIds :
    IsCachedRun(id) =>
      /\ id \notin DOMAIN claims
      /\ \A w \in Workers : worker[w].job # id

C7_NeverTransitioned ==
  \A id \in RunIds :
    /\ IsCachedRun(id) => runs'[id] = runs[id]
    /\ runs'[id].status # runs[id].status => runs[id].is_cached_result = FALSE

C7_CachedNeverRun == []C7_NeverClaimed /\ [][C7_NeverTransitioned]_vars

(* A cached run still shows the running snapshot it was created with, its  *)
(* canonical run has ended, and the workers, finding nothing to claim, are *)
(* idle.                                                                   *)
C7_Witness ==
  /\ \E c \in RunIds :
       /\ runs[c].is_cached_result
       /\ runs[c].status = JOB_STATUS_RUNNING
       /\ runs[runs[c].source_run_id].status
            \in {JOB_STATUS_COMPLETED, JOB_STATUS_FAILED}
  /\ \A w \in Workers : worker[w].pc \in {"poll", "sleep"}
  /\ \E w \in Workers : worker[w].pc = "sleep"

(* C8: find_canonical_run_by_cache_key returns None exactly when no        *)
(* non-cached running or completed run has the key, and otherwise a run of *)
(* that kind with the smallest created_at; it never returns a queued,      *)
(* failed or cached run.                                                   *)
C8_Lookup ==
  \A q \in Reqs :
    (req[q].pc = "idle" /\ req'[q].pc = "found") =>
      LET key == req'[q].cache_key
          c == req'[q].canonical
          cand == {id \in RunIds :
                     /\ runs[id].cache_key = key
                     /\ ~runs[id].is_cached_result
                     /\ runs[id].status \in {JOB_STATUS_RUNNING, JOB_STATUS_COMPLETED}}
      IN  /\ cand = {} => c = NoId
          /\ cand # {} =>
               /\ c \in cand
               /\ \A j \in cand : runs[c].created_at <= runs[j].created_at
          /\ c # NoId =>
               /\ runs[c].status \notin {JOB_STATUS_QUEUED, JOB_STATUS_FAILED}
               /\ req'[q].canonical_run = runs[c]

C8_FindOldest == [][C8_Lookup]_vars

(* A lookup has returned the older of two running or completed canonical   *)
(* runs of its cache key.                                                  *)
C8_Witness ==
  \E q \in Reqs :
    /\ req[q].pc = "found"
    /\ req[q].canonical # NoId
    /\ \E b \in LiveCanonical(req[q].cache_key) :
         /\ b # req[q].canonical
         /\ runs[req[q].canonical].created_at < runs[b].created_at

(* C9: two build_cache_key calls return the same key exactly when mode,    *)
(* run_mode, max_insights, input_pattern and the UTC date agree, whatever  *)
(* the user_id and config_name of the two requests.                        *)
SameConfigAndDate(a, b) ==
  /\ a.mode = b.mode
  /\ a.run_mode = b.run_mode
  /\ a.max_insights = b.max_insights
  /\ a.input_pattern = b.input_pattern
  /\ DateOf(a.t) = DateOf(b.t)

C9_KeyDeterminedByFive ==
  keyOut # NoKeyIn =>
    (keyOut[1] = keyOut[2] <=> SameConfigAndDate(keyIn[1], keyIn[2]))

(* Two users with different config names ask for the same configuration at *)
(* different times of one day and get the same key.                        *)
C9_Witness ==
  /\ keyOut # NoKeyIn
  /\ keyOut[1] = keyOut[2]
  /\ keyIn[1].user_id # keyIn[2].user_id
  /\ keyIn[1].config_name # keyIn[2].config_name
  /\ keyIn[1].t # keyIn[2].t

(* C10: when two users' requests for one configuration are handled at the *)
(* same time both are accepted and get distinct run ids: the two requests  *)
(* never hold the same run id once past the lookup (the later insert would *)
(* meet the other's row, raise, and the request end in a 500).             *)
C10_BothAccepted ==
  \A q, r \in Reqs :
    (/\ q # r
     /\ req[q].pc = "found" /\ req[r].pc = "found"
     /\ req[q].user # req[r].user
     /\ req[q].body = req[r].body)
      => req[q].run_id # req[r].run_id

(* C11: when the pipeline raises while a worker processes a claimed job,   *)
(* that run becomes failed with a non-empty error_message and stays        *)
(* failed, no other run and no stored insight changes, and the worker is   *)
(* back at the top of its loop, from where it claims later queued jobs.    *)
C11_PipelineRaises ==
  \A w \in Workers :
    (/\ worker[w].pc = "scan"
     /\ worker[w].stage <= NbPoints
     /\ worker'[w].pc # "scan")
      => LET id == worker[w].job
         IN  /\ DOMAIN runs' = DOMAIN runs
             /\ runs'[id].status = JOB_STATUS_FAILED
             /\ runs'[id].error_message # Null
             /\ runs'[id].error_message > 0
             /\ \A j \in RunIds \ {id} : runs'[j] = runs[j]
             /\ insights' = insights
             /\ worker'[w] = IdleWorker
             /\ \A v \in Workers \ {w} : worker'[v] = worker[v]

C11_StaysFailed ==
  \A id \in RunIds :
    (runs[id].status = JOB_STATUS_FAILED /\ runs[id].nb_insights = Null)
      => runs'[id] = runs[id]

C11_FailureIsolated == [][C11_PipelineRaises /\ C11_StaysFailed]_vars

(* The only worker has failed run a in the pipeline and is now processing  *)
(* the later run b.                                                        *)
C11_Witness ==
  \E a, b \in RunIds :
    /\ a # b
    /\ runs[a].status = JOB_STATUS_FAILED
    /\ runs[a].nb_insights = Null
    /\ runs[a].error_message > 0
    /\ runs[a].created_at < runs[b].created_at
    /\ worker["w1"].pc = "scan"
    /\ worker["w1"].job = b
    /\ worker["w1"].stage > 2
    /\ runs[b].status = JOB_STATUS_RUNNING

(* C12: there is no lease, heartbeat, retry or reclaim.  A run whose       *)
(* worker died before complete_job or fail_job (it is running and no       *)
(* worker holds it) stays exactly as it is in every later step, and a      *)
(* claim only ever takes a queued run: no run that is running, completed   *)
(* or failed is selected by any worker, returned by claim_next_job again,  *)
(* or put back to queued.                                                  *)
Orphaned(id) ==
  /\ runs[id].status = JOB_STATUS_RUNNING
  /\ \A w \in Workers : worker[w].job # id

C12_OrphanStays ==
  \A id \in RunIds :
    Orphaned(id) => (runs'[id] = runs[id] /\ \A w \in Workers : worker'[w].job # id)

C12_ClaimOnlyQueued ==
  \A id \in RunIds :
    runs[id].status # JOB_STATUS_QUEUED
      => /\ runs'[id].status # JOB_STATUS_QUEUED
         /\ id \in DOMAIN claims /\ claims'[id] = claims[id]
         /\ \A w \in Workers : worker'[w].job = id => worker[w].job = id

C12_NoReclaim == [][C12_OrphanStays /\ C12_ClaimOnlyQueued]_vars

(* A run was claimed and processed up to the clustering report, its worker *)
(* died, and since then every worker has polled the queue and found        *)
(* nothing to claim.                                                       *)
C12_Witness ==
  \E id \in RunIds :
    /\ Orphaned(id)
    /\ runs[id].progress = 30
    /\ claims[id] = 1
    /\ \A w \in Workers : worker[w].pc = "sleep"

(* C13: update_job_progress(id, pct) changes nothing unless run id exists  *)
(* and is running; on a running run it stores pct clamped to 0..100 in     *)
(* progress and changes no other field and no other run; every stored      *)
(* progress value is within 0..100.                                        *)
C13_Effect ==
  LET id == call'.run_id
      pct == call'.progress
      clamped == IF pct < 0 THEN 0 ELSE IF pct > 100 THEN 100 ELSE pct
  IN  /\ DOMAIN runs' = DOMAIN runs
      /\ \A j \in RunIds :
           runs'[j] = IF j = id /\ runs[j].status = JOB_STATUS_RUNNING
                      THEN [runs[j] EXCEPT !.progress = clamped]
                      ELSE runs[j]

C13_InRange == \A id \in RunIds : runs[id].progress \in 0..100

C13_ProgressOnlyWhenRunning == []C13_InRange /\ [][C13_Effect]_vars

(* Out-of-range calls have been stored clamped on running runs while a run *)
(* that is not running kept its progress.                                  *)
C13_Witness ==
  /\ call.op = "update_job_progress"
  /\ call.progress = 150
  /\ call.run_id \in RunIds
  /\ runs[call.run_id].status = JOB_STATUS_RUNNING
  /\ runs[call.run_id].progress = 100
  /\ \E j \in RunIds : runs[j].status = JOB_STATUS_FAILED /\ runs[j].progress = 0
  /\ \E j \in RunIds \ {call.run_id} :
       runs[j].status = JOB_STATUS_RUNNING /\ runs[j].progress = 50

(* C14: the stored progress of a run never decreases: in every step        *)
(* (claim, progress callback, completion, failure, also after a worker     *)
(* died) each run's progress is at least what it was before.               *)
C14_Step == \A id \in RunIds : runs'[id].progress >= runs[id].progress

C14_ProgressMonotone == [][C14_Step]_vars

(* One run went through every progress report and completed with          *)
(* insights; another failed after the report of 40.                        *)
C14_Witness ==
  \E a, b \in RunIds :
    /\ runs[a].status = JOB_STATUS_COMPLETED
    /\ runs[a].nb_insights = 2
    /\ runs[a].progress = 100
    /\ runs[b].status = JOB_STATUS_FAILED
    /\ runs[b].progress = 40

(* C15: when the canonical run of a cached run no longer exists, a read of *)
(* the cached run (its status, its insights) answers with an error, not    *)
(* with the cached run's own snapshot and not with an empty listing.       *)
CanonicalGone(id) ==
  /\ id \in RunIds
  /\ runs[id].is_cached_result
  /\ runs[id].source_run_id \notin RunIds

C15_Read ==
  (/\ call' # call
   /\ call'.op \in {"get_run_status", "get_run_insights_endpoint"}
   /\ CanonicalGone(call'.run_id))
    => call'.result.code # 200

C15_StaleReferenceSurfaced == [][C15_Read]_vars

BadBody(body) ==
  \/ body.mode \notin {"light", "deep"}
  \/ body.run_mode \notin {"discover", "track"}

C16_Rejected ==
  (call.op = "create_run" /\ BadBody(call.body)) => call.code \in {400, 403}

C16_Step ==
  \A u \in Users, body \in AnyRequests :
    (BadBody(body) /\ call' # call /\ call'.op = "create_run"
       /\ call'.user = u /\ call'.body = body)
      => /\ runs' = runs
         /\ call'.code = IF ensure_can_run_scan(u) THEN 400 ELSE 403

C16_NoRunForInvalid ==
  \A id \in RunIds : ~BadBody([mode |-> runs[id].mode, run_mode |-> runs[id].run_mode])

C17_OneScanPerDay ==
  \A u \in Users :
    ~is_premium(u) =>
      \A d \in 0..DateOf(MaxTime) :
        Cardinality({id \in RunIds :
                       runs[id].user_id = u /\ DateOf(runs[id].created_at) = d})
          <= FREE_SCANS_PER_DAY

(* C18: for thresholds tau < exact_dup and a similarity sim (the largest   *)
(* similarity to the history), the classification is exactly one of novel  *)
(* (sim < tau: neither flag), recurring (tau <= sim < exact_dup:           *)
(* is_recurring only) and duplicate (sim >= exact_dup: is_duplicate only); *)
(* with no history it is novel; both flags are never true together.        *)
Largest(S) == CHOOSE m \in S : \A x \in S : m >= x

C18_ExactlyOneClass ==
  call.op = "compute_detailed_similarity" =>
    LET a == call.args
        r == call.result
        tau == a.tau
        exact == a.exact_dup_threshold
    IN  /\ ~(r.is_duplicate /\ r.is_recurring)
        /\ a.sims = {} => (~r.is_duplicate /\ ~r.is_recurring)
        /\ (a.sims # {} /\ tau < exact) =>
             LET sim == Largest(a.sims)
             IN  /\ r.max_similarity = sim
                 /\ sim < tau => (~r.is_duplicate /\ ~r.is_recurring)
                 /\ (tau <= sim /\ sim < exact) => (r.is_recurring /\ ~r.is_duplicate)
                 /\ sim >= exact => (r.is_duplicate /\ ~r.is_recurring)

(* An insight whose largest similarity reaches the duplicate threshold was *)
(* classified duplicate and not recurring.                                 *)
C18_Witness ==
  /\ call.op = "compute_detailed_similarity"
  /\ Cardinality(call.args.sims) = 2
  /\ call.args.tau < call.args.exact_dup_threshold
  /\ Largest(call.args.sims) >= call.args.exact_dup_threshold
  /\ call.result.is_duplicate
  /\ ~call.result.is_recurring

(* C19: for a non-negative raw score and alpha in 0..1, when the largest   *)
(* similarity to the history is below tau, or the history is empty, the    *)
(* adjusted score equals the raw score; when it is at least tau the        *)
(* adjusted score is score * (1 - alpha * (sim - tau)), is not greater     *)
(* than the raw score, and does not increase when the similarity does.     *)
C19_PenaltyBoundary ==
  call.op = "apply_penalty_to_scores" =>
    LET a == call.args
        raw == a.priority_score * SimScale * SimScale
    IN  /\ a.sims = {} => call.result = raw
        /\ a.sims # {} =>
             LET sim == Largest(a.sims)
             IN  /\ sim < a.tau => call.result = raw
                 /\ sim >= a.tau =>
                      /\ call.result = a.priority_score
                                         * (SimScale * SimScale - a.alpha * (sim - a.tau))
                      /\ call.result <= raw
                 /\ \A higher \in SimValues :
                      higher >= sim =>
                        apply_penalty_to_scores(a.priority_score, a.sims \cup {higher},
                                                a.tau, a.alpha) <= call.result

(* A positive score was lowered because the largest similarity exceeds     *)
(* tau and alpha is positive.                                              *)
C19_Witness ==
  /\ call.op = "apply_penalty_to_scores"
  /\ call.args.sims # {}
  /\ Largest(call.args.sims) > call.args.tau
  /\ call.args.alpha > 0
  /\ call.args.priority_score = MaxScore
  /\ call.result < MaxScore * SimScale * SimScale
  /\ call.result > 0

(* C20: an entry of the history file that is within the retention window   *)
(* is still in the file after every step of every run, whichever way the   *)
(* runs of the processes interleave: only entries dated before the cutoff  *)
(* leave the file.                                                         *)
C20_EntryPersists ==
  [][\A i \in 1..Len(history.file) :
       history.file[i].date >= Cutoff
         => \E j \in 1..Len(history'.file) : history'.file[j] = history.file[i]]_vars

(* C21: mmr_rerank with top_k = 1 returns, whatever lambda_param is, one   *)
(* item, and it is a candidate whose priority score is the highest of the  *)
(* whole pool.                                                             *)
C21_TopOneIsBest ==
  (call.op = "mmr_rerank" /\ call.args.top_k = 1)
    => /\ Len(call.result.selected_indices) = 1
       /\ \A i \in 1..call.args.n_items :
            call.args.priority_scores[i]
              <= call.args.priority_scores[call.result.selected_indices[1]]

C21_Witness ==
  /\ call.op = "mmr_rerank"
  /\ call.args.top_k = 1
  /\ call.args.lambda_param = 0
  /\ call.args.n_items = MaxPool
  /\ call.result.selected_indices = <<MaxPool>>
  /\ call.args.priority_scores[1] < call.args.priority_scores[MaxPool]

(* C22: mmr_rerank over n candidates returns min(top_k, n) items, selects  *)
(* no candidate twice, and the k-th returned item is the k-th selected     *)
(* candidate and carries mmr_rank k.                                       *)
C22_CountDistinctRanks ==
  call.op = "mmr_rerank"
    => LET sel == call.result.selected_indices
           items == call.result.reranked_items
           k == Min(call.args.top_k, call.args.n_items)
       IN  /\ Len(items) = k
           /\ Len(sel) = k
           /\ \A a, b \in 1..Len(sel) : a # b => sel[a] # sel[b]
           /\ \A a \in 1..k : items[a].mmr_rank = a /\ items[a].idx = sel[a]

C22_Witness ==
  /\ call.op = "mmr_rerank"
  /\ call.args.n_items = MaxPool
  /\ call.args.top_k = MaxPool - 1
  /\ call.args.lambda_param = 0
  /\ Len(call.result.reranked_items) = MaxPool - 1
  /\ \A i, j \in 1..MaxPool : call.args.priority_scores[i] = call.args.priority_scores[j]

(* C23: mmr_rerank_by_sector with a quota of at least 1 selects from every *)
(* sector at most the quota and at least one item when the sector has a    *)
(* candidate; the items come sector by sector in descending order of the   *)
(* sectors' mean priority score, no candidate is selected twice and the    *)
(* mmr_rank values are 1..n over the whole result.                         *)
C23_SectorQuota ==
  (call.op = "mmr_rerank_by_sector" /\ call.args.top_k >= 1)
    => LET sel == call.result.selected_indices
           items == call.result.reranked_items
           sectors == call.args.sectors
           picked(s) == {a \in 1..Len(sel) : sectors[sel[a]] = s}
       IN  /\ \A s \in Sectors :
                /\ Cardinality(picked(s)) <= call.args.top_k
                /\ SectorIndices(sectors, s) # {} => Cardinality(picked(s)) >= 1
           /\ \A a, b \in 1..Len(sel) : a # b => sel[a] # sel[b]
           /\ Len(items) = Len(sel)
           /\ \A a \in 1..Len(items) : items[a].mmr_rank = a /\ items[a].idx = sel[a]
           /\ \A a, b \in 1..Len(sel) :
                (a < b /\ sectors[sel[a]] # sectors[sel[b]])
                  => /\ ~MeanAbove(call.args.priority_scores, sectors,
                                   sectors[sel[b]], sectors[sel[a]])
                     /\ \A c \in a..b : sectors[sel[c]] # sectors[sel[a]]
                                         => \A d \in c..b : sectors[sel[d]] # sectors[sel[a]]

C23_Witness ==
  /\ call.op = "mmr_rerank_by_sector"
  /\ call.args.top_k = 1
  /\ call.args.n_items = MaxPool
  /\ call.args.sectors[1] # call.args.sectors[MaxPool]
  /\ MeanAbove(call.args.priority_scores, call.args.sectors,
               call.args.sectors[MaxPool], call.args.sectors[1])
  /\ Len(call.result.selected_indices) = 2
  /\ call.args.sectors[call.result.selected_indices[1]] = call.args.sectors[MaxPool]

(* The mean of the five components (combined pain, traction, novelty, WTP  *)
(* and trend), in hundredths.                                              *)
C24_Mean ==
  2 * (call.args.pain_score_llm * 7 + call.args.heuristic_score * 3)
    + 20 * (call.args.traction_score + call.args.novelty_score
            + call.args.wtp_score + call.args.trend_score)

C24_AllZero ==
  /\ call.args.pain_weight = 0 /\ call.args.traction_weight = 0
  /\ call.args.novelty_weight = 0 /\ call.args.wtp_weight = 0
  /\ call.args.trend_weight = 0

(* C24: calculate_priority_score lies within 0..10 for every input, and    *)
(* when all five weights are zero it is the mean of the components (equal  *)
(* weights).                                                               *)
C24_EqualWeightFallback ==
  call.op = "calculate_priority_score"
    => /\ call.result >= 0 /\ call.result <= 100 * ScoreMax
       /\ C24_AllZero => call.result = C24_Mean

(* The part of C24 the code does satisfy: with non-negative weights the    *)
(* score lies within 0..10.                                                *)
C24_InRange ==
  call.op = "calculate_priority_score"
    => call.result >= 0 /\ call.result <= 100 * ScoreMax

(* C25: any two cached runs with the same cache key have the same          *)
(* source_run_id.                                                          *)
C25_OneSourcePerKey ==
  \A a, b \in RunIds :
    (/\ runs[a].is_cached_result /\ runs[b].is_cached_result
     /\ runs[a].cache_key = runs[b].cache_key)
      => runs[a].source_run_id = runs[b].source_run_id

(* C26: a job that is being processed by a worker that has received a      *)
(* shutdown signal stays in status running: no step of that worker         *)
(* completes or fails it.                                                  *)
C26_StaysRunning ==
  [][\A w \in Workers :
       (/\ ~worker[w].running
        /\ worker[w].pc = "scan"
        /\ runs[worker[w].job].status = JOB_STATUS_RUNNING)
         => runs'[worker[w].job].status = JOB_STATUS_RUNNING]_vars

(* The number of insights stored for a run.                                *)
C27_Stored(id) == IF id \in DOMAIN insights THEN insights[id] ELSE 0

(* C27: in every state a canonical run that is completed with              *)
(* nb_insights = n has exactly n insights stored.                          *)
C27_CompletedHasInsights ==
  \A id \in RunIds :
    (IsCanonical(id) /\ runs[id].status = JOB_STATUS_COMPLETED)
      => C27_Stored(id) = runs[id].nb_insights

(* C28: the rank values of the insights stored for one run are unique and  *)
(* are 1..n, in discover and in track mode.                                *)
C28_RanksUnique ==
  (call.op = "run_enriched_pipeline" /\ ~call.result.raised)
    => /\ \A i, j \in 1..call.args.n :
            i # j => call.result.rank[i] # call.result.rank[j]
       /\ {call.result.rank[i] : i \in 1..call.args.n} = 1..call.args.n

(* The canonical runs a worker has claimed and is processing.              *)
C29_InProcess ==
  {id \in RunIds :
     /\ IsCanonical(id)
     /\ \E w \in Workers : worker[w].pc = "scan" /\ worker[w].job = id}

(* C29: count_running_jobs is the number of canonical runs claimed and     *)
(* being processed by workers and count_queued_jobs the number of          *)
(* canonical runs waiting to be claimed; cached runs are in neither count. *)
C29_CountsMatchWork ==
  /\ count_running_jobs = Cardinality(C29_InProcess)
  /\ count_queued_jobs = Cardinality({id \in RunIds : IsCanonical(id) /\ IsQueued(id)})

(* A claim never passes over an older run: the run a worker locks is among *)
(* the oldest queued canonical runs that no claim transaction holds.       *)
C30_OldestFirst ==
  \A w \in Workers :
    (worker[w].pc = "poll" /\ worker'[w].pc = "locked") =>
      \A j \in RunIds :
        (IsCanonical(j) /\ IsQueued(j) /\ ~Locked(j))
          => runs[worker'[w].job].created_at <= runs[j].created_at

C30_Finished(id) == runs[id].status \in {JOB_STATUS_COMPLETED, JOB_STATUS_FAILED}

(* C30: while a worker keeps polling and every pipeline execution ends,    *)
(* every queued canonical run is eventually claimed and eventually is      *)
(* completed or failed, and a claim always takes the oldest queued         *)
(* canonical run that is not locked.                                       *)
C30_NoStarvation ==
  /\ \A id \in BatchIds(MaxBatch) :
       (id \in RunIds /\ IsCanonical(id) /\ IsQueued(id))
         ~> (id \in DOMAIN claims /\ C30_Finished(id))
  /\ [][C30_OldestFirst]_vars

(* A table of MaxBatch runs, all of them queued at the start, has been     *)
(* worked off.                                                             *)
C30_Witness ==
  /\ RunIds = BatchIds(MaxBatch)
  /\ \A id \in RunIds : C30_Finished(id) /\ runs[id].completed_at = now
  /\ \A w \in Workers : worker[w].pc = "sleep"

====
